---- MODULE Spec2Model ----
(***************************************************************************)
(* Model of ng/AndroidKeyMintDevice.cpp: the authorization-tag classifier  *)
(* convertKeyCharacteristics and the IKeyMintDevice handlers that feed it. *)
(*                                                                         *)
(* Spec      : one handler call on a device, its arguments and the         *)
(*             engine's response drawn from bounded sets in Init.          *)
(* SpecTable : sequences of begin / finish / abort against the engine's    *)
(*             bounded operation table.                                    *)
(***************************************************************************)
EXTENDS Integers, Sequences, FiniteSets, TLC

VARIABLES
    securityLevel_,  \* AndroidKeyMintDevice::securityLevel_
    args,            \* the caller's arguments of the call being served (authToken: begin's, 0 for none)
    engine,          \* what impl_ (AndroidKeymaster) answers to the call
    pc,              \* "idle" | "returned" | "crashed" (CHECK failure)
    ret,             \* the ScopedAStatus returned by the last call
    out,             \* the caller's output objects (out-parameters)
    conv,            \* the last invocation of convertKeyCharacteristics
    request,         \* the last request the device handed to impl_
    opTable,         \* the engine's operation table: live handles, oldest first
    nextHandle       \* the next operation handle the engine hands out

vars == <<securityLevel_, args, engine, pc, ret, out, conv, request, opTable, nextHandle>>

----------------------------------------------------------------------------
(* Bounds of the model. *)

MaxSw == 2        \* longest software-enforced (unenforced) set of a response
MaxHw == 1        \* longest hardware-enforced (enforced) set of a response
MaxReq == 1       \* longest caller parameter list
MaxBegins == 17   \* operation handles the engine hands out in one behaviour

\* Mutant: the table is built one slot too large.
kOperationTableSizePlusOne == 16 + 1

(* Program constant. *)
kOperationTableSize == 16

----------------------------------------------------------------------------
(* SecurityLevel, and the tag vocabulary as the switch of                  *)
(* convertKeyCharacteristics partitions it.                                *)

SOFTWARE == "SOFTWARE"
KEYSTORE == "KEYSTORE"
SecurityLevels == {"SOFTWARE", "TRUSTED_ENVIRONMENT", "STRONGBOX"}

InvalidTags ==
    {"KM_TAG_ECIES_SINGLE_HASH_MODE", "KM_TAG_INVALID", "KM_TAG_KDF",
     "KM_TAG_ROLLBACK_RESISTANCE"}

UnimplementedTags ==
    {"KM_TAG_ALLOW_WHILE_ON_BODY", "KM_TAG_BOOTLOADER_ONLY",
     "KM_TAG_ROLLBACK_RESISTANT", "KM_TAG_STORAGE_KEY"}

ConditionalKeystoreTags == {"KM_TAG_CREATION_DATETIME"}

DisallowedTags == {"KM_TAG_APPLICATION_DATA", "KM_TAG_ATTESTATION_APPLICATION_ID"}

NotCharacteristicTags ==
    {"KM_TAG_ASSOCIATED_DATA", "KM_TAG_ATTESTATION_CHALLENGE",
     "KM_TAG_ATTESTATION_ID_BRAND", "KM_TAG_ATTESTATION_ID_DEVICE",
     "KM_TAG_ATTESTATION_ID_IMEI", "KM_TAG_ATTESTATION_ID_SECOND_IMEI",
     "KM_TAG_ATTESTATION_ID_MANUFACTURER", "KM_TAG_ATTESTATION_ID_MEID",
     "KM_TAG_ATTESTATION_ID_MODEL", "KM_TAG_ATTESTATION_ID_PRODUCT",
     "KM_TAG_ATTESTATION_ID_SERIAL", "KM_TAG_AUTH_TOKEN",
     "KM_TAG_CERTIFICATE_SERIAL", "KM_TAG_CERTIFICATE_SUBJECT",
     "KM_TAG_CERTIFICATE_NOT_AFTER", "KM_TAG_CERTIFICATE_NOT_BEFORE",
     "KM_TAG_CONFIRMATION_TOKEN", "KM_TAG_DEVICE_UNIQUE_ATTESTATION",
     "KM_TAG_IDENTITY_CREDENTIAL_KEY", "KM_TAG_INCLUDE_UNIQUE_ID",
     "KM_TAG_MAC_LENGTH", "KM_TAG_NONCE", "KM_TAG_RESET_SINCE_ID_ROTATION",
     "KM_TAG_ROOT_OF_TRUST", "KM_TAG_UNIQUE_ID"}

KeyMintEnforcedTags ==
    {"KM_TAG_ALGORITHM", "KM_TAG_APPLICATION_ID", "KM_TAG_AUTH_TIMEOUT",
     "KM_TAG_BLOB_USAGE_REQUIREMENTS", "KM_TAG_BLOCK_MODE",
     "KM_TAG_BOOT_PATCHLEVEL", "KM_TAG_CALLER_NONCE", "KM_TAG_DIGEST",
     "KM_TAG_EARLY_BOOT_ONLY", "KM_TAG_EC_CURVE", "KM_TAG_EXPORTABLE",
     "KM_TAG_KEY_SIZE", "KM_TAG_MAX_USES_PER_BOOT", "KM_TAG_MIN_MAC_LENGTH",
     "KM_TAG_MIN_SECONDS_BETWEEN_OPS", "KM_TAG_NO_AUTH_REQUIRED",
     "KM_TAG_ORIGIN", "KM_TAG_OS_PATCHLEVEL", "KM_TAG_OS_VERSION",
     "KM_TAG_PADDING", "KM_TAG_PURPOSE", "KM_TAG_RSA_OAEP_MGF_DIGEST",
     "KM_TAG_RSA_PUBLIC_EXPONENT", "KM_TAG_TRUSTED_CONFIRMATION_REQUIRED",
     "KM_TAG_TRUSTED_USER_PRESENCE_REQUIRED",
     "KM_TAG_UNLOCKED_DEVICE_REQUIRED", "KM_TAG_USER_AUTH_TYPE",
     "KM_TAG_USER_SECURE_ID", "KM_TAG_VENDOR_PATCHLEVEL"}

KeystoreEnforcedTags ==
    {"KM_TAG_ACTIVE_DATETIME", "KM_TAG_ALL_APPLICATIONS", "KM_TAG_ALL_USERS",
     "KM_TAG_MAX_BOOT_LEVEL", "KM_TAG_ORIGINATION_EXPIRE_DATETIME",
     "KM_TAG_USAGE_EXPIRE_DATETIME", "KM_TAG_USER_ID",
     "KM_TAG_USAGE_COUNT_LIMIT"}

----------------------------------------------------------------------------
(* Parameters.  A keymaster_key_param_t is the pair <<tag, value>>; an     *)
(* AIDL KeyParameter is the record [tag, value].  The tag keeps its        *)
(* identifier across the two (legacy_enum_conversion is a cast).           *)

kmParam2Aidl(param) == [tag |-> param[1], value |-> param[2]]

kmParamSet2Aidl(set) == [i \in 1..Len(set) |-> kmParam2Aidl(set[i])]

KmParamSet(keyParams) ==
    [i \in 1..Len(keyParams) |-> <<keyParams[i].tag, keyParams[i].value>>]

\* AuthorizationSet::Contains(tag)
Contains(set, tag) == \E i \in 1..Len(set) : set[i][1] = tag

----------------------------------------------------------------------------
(* convertKeyCharacteristics.                                              *)

\* The case label of the switch that a tag selects.
SwitchCase(tag) ==
    CASE tag \in InvalidTags -> "Invalid"
      [] tag \in UnimplementedTags -> "Unimplemented"
      [] tag \in ConditionalKeystoreTags -> "ConditionalKeystore"
      [] tag \in DisallowedTags -> "Disallowed"
      [] tag \in NotCharacteristicTags -> "NotCharacteristic"
      [] tag \in KeyMintEnforcedTags -> "KeyMintEnforced"
      [] tag \in KeystoreEnforcedTags -> "KeystoreEnforced"
      [] OTHER -> "none"   \* the switch has no default

\* Mutant: a KeyMint-enforced tag already in the list is not pushed again.
CaseBodyDropsRepeatedTag(label, requestParams, entry, acc) ==
    CASE label = "Invalid" ->
            [acc EXCEPT !.fatal = TRUE]
      [] label = "ConditionalKeystore" ->
            IF Contains(requestParams, "KM_TAG_CREATION_DATETIME")
            THEN [acc EXCEPT !.keystoreEnforced = Append(@, kmParam2Aidl(entry))]
            ELSE acc
      [] label = "KeyMintEnforced" ->
            IF \E k \in 1..Len(acc.keyMintEnforced) : acc.keyMintEnforced[k].tag = entry[1]
            THEN acc
            ELSE [acc EXCEPT !.keyMintEnforced = Append(@, kmParam2Aidl(entry))]
      [] label = "KeystoreEnforced" ->
            [acc EXCEPT !.keystoreEnforced = Append(@, kmParam2Aidl(entry))]
      [] OTHER ->
            acc

\* What the selected case does.  acc holds the two lists being built and
\* whether a CHECK has failed.
CaseBody(label, requestParams, entry, acc) ==
    CASE label = "Invalid" ->
            [acc EXCEPT !.fatal = TRUE]     \* CHECK(false)
      [] label = "Unimplemented" ->
            acc
      [] label = "ConditionalKeystore" ->
            IF Contains(requestParams, "KM_TAG_CREATION_DATETIME")
            THEN [acc EXCEPT !.keystoreEnforced = Append(@, kmParam2Aidl(entry))]
            ELSE acc
      [] label = "Disallowed" ->
            acc
      [] label = "NotCharacteristic" ->
            acc
      [] label = "KeyMintEnforced" ->
            [acc EXCEPT !.keyMintEnforced = Append(@, kmParam2Aidl(entry))]
      [] label = "KeystoreEnforced" ->
            [acc EXCEPT !.keystoreEnforced = Append(@, kmParam2Aidl(entry))]
      [] OTHER ->
            acc

\* Mutant: the not-key-characteristics group shares the KeyMint-enforced body.
ClassifyEntryMisroutes(requestParams, entry, acc) ==
    IF SwitchCase(entry[1]) = "NotCharacteristic"
    THEN CaseBody("KeyMintEnforced", requestParams, entry, acc)
    ELSE CaseBody(SwitchCase(entry[1]), requestParams, entry, acc)

\* Mutant: the disallowed group shares the Keystore-enforced body.
ClassifyEntryKeepsDisallowed(requestParams, entry, acc) ==
    IF SwitchCase(entry[1]) = "Disallowed"
    THEN CaseBody("KeystoreEnforced", requestParams, entry, acc)
    ELSE CaseBody(SwitchCase(entry[1]), requestParams, entry, acc)

\* Mutant: CREATION_DATETIME is echoed whatever the request held.
ClassifyEntryAlwaysEchoes(requestParams, entry, acc) ==
    IF SwitchCase(entry[1]) = "ConditionalKeystore"
    THEN CaseBody("KeystoreEnforced", requestParams, entry, acc)
    ELSE CaseBody(SwitchCase(entry[1]), requestParams, entry, acc)

\* Mutant: the invalid group only breaks, as the unimplemented group does.
ClassifyEntryIgnoresInvalid(requestParams, entry, acc) ==
    IF SwitchCase(entry[1]) = "Invalid"
    THEN CaseBody("Unimplemented", requestParams, entry, acc)
    ELSE CaseBody(SwitchCase(entry[1]), requestParams, entry, acc)

\* One turn of the loop over sw_enforced.
ClassifyEntry(requestParams, entry, acc) ==
    CaseBody(SwitchCase(entry[1]), requestParams, entry, acc)

RECURSIVE WalkSwEnforced(_, _, _, _)
WalkSwEnforced(requestParams, sw_enforced, i, acc) ==
    IF i > Len(sw_enforced) \/ acc.fatal
    THEN acc
    ELSE WalkSwEnforced(requestParams, sw_enforced, i + 1,
                        ClassifyEntry(requestParams, sw_enforced[i], acc))

\* A CHECK failure: the process aborts and nothing is returned.
CheckFailed == [aborted |-> TRUE, retval |-> <<>>]

Returned(retval) == [aborted |-> FALSE, retval |-> retval]

\* Mutant: the non-SOFTWARE path hands the software list through the switch
\* instead of copying it.
PretendHardwareFiltered(keyMintSecurityLevel, sw_enforced, hw_enforced, include_keystore_enforced) ==
    LET keyMintEnforced == [securityLevel |-> keyMintSecurityLevel,
                            authorizations |-> kmParamSet2Aidl(hw_enforced)]
        kept == SelectSeq(sw_enforced, LAMBDA e : SwitchCase(e[1]) \in {"KeyMintEnforced", "KeystoreEnforced"})
    IN IF include_keystore_enforced /\ Len(kept) > 0
       THEN Returned(<<keyMintEnforced, [securityLevel |-> KEYSTORE, authorizations |-> kmParamSet2Aidl(kept)]>>)
       ELSE Returned(<<keyMintEnforced>>)

\* The path taken when keyMintSecurityLevel != SOFTWARE.
PretendHardware(keyMintSecurityLevel, sw_enforced, hw_enforced, include_keystore_enforced) ==
    LET keyMintEnforced == [securityLevel |-> keyMintSecurityLevel,
                            authorizations |-> kmParamSet2Aidl(hw_enforced)]
    IN IF include_keystore_enforced /\ Len(sw_enforced) > 0
       THEN LET keystoreEnforced == [securityLevel |-> KEYSTORE,
                                     authorizations |-> kmParamSet2Aidl(sw_enforced)]
            IN Returned(<<keyMintEnforced, keystoreEnforced>>)
       ELSE Returned(<<keyMintEnforced>>)

\* Mutant: both entries are pushed without the emptiness tests.
BuildRetvalKeepsEmpty(keyMintSecurityLevel, acc, include_keystore_enforced) ==
    LET keyMintEnforced == [securityLevel |-> keyMintSecurityLevel,
                            authorizations |-> acc.keyMintEnforced]
        keystoreEnforced == [securityLevel |-> KEYSTORE,
                             authorizations |-> acc.keystoreEnforced]
    IN IF include_keystore_enforced
       THEN <<keyMintEnforced, keystoreEnforced>>
       ELSE <<keyMintEnforced>>

\* The end of the SOFTWARE path: retval is built from the two lists.
BuildRetval(keyMintSecurityLevel, acc, include_keystore_enforced) ==
    LET keyMintEnforced == [securityLevel |-> keyMintSecurityLevel,
                            authorizations |-> acc.keyMintEnforced]
        keystoreEnforced == [securityLevel |-> KEYSTORE,
                             authorizations |-> acc.keystoreEnforced]
        first == IF Len(keyMintEnforced.authorizations) > 0
                 THEN <<keyMintEnforced>> ELSE <<>>
    IN IF include_keystore_enforced /\ Len(keystoreEnforced.authorizations) > 0
       THEN Append(first, keystoreEnforced)
       ELSE first

\* The loop over sw_enforced and what follows it.
WalkAndBuild(keyMintSecurityLevel, requestParams, sw_enforced, include_keystore_enforced) ==
    LET acc == WalkSwEnforced(requestParams, sw_enforced, 1,
                   [keyMintEnforced |-> <<>>, keystoreEnforced |-> <<>>,
                    fatal |-> FALSE])
    IN IF acc.fatal
       THEN CheckFailed    \* CHECK(false)
       ELSE Returned(BuildRetval(keyMintSecurityLevel, acc, include_keystore_enforced))

\* Mutant: the CHECK on hw_enforced is missing.
PureSoftwareUnchecked(keyMintSecurityLevel, requestParams, sw_enforced, hw_enforced, include_keystore_enforced) ==
    WalkAndBuild(keyMintSecurityLevel, requestParams, sw_enforced, include_keystore_enforced)

\* The path taken at SOFTWARE.
PureSoftware(keyMintSecurityLevel, requestParams, sw_enforced, hw_enforced, include_keystore_enforced) ==
    IF Len(hw_enforced) > 0
    THEN CheckFailed    \* CHECK(hw_enforced.empty())
    ELSE WalkAndBuild(keyMintSecurityLevel, requestParams, sw_enforced, include_keystore_enforced)

convertKeyCharacteristics(keyMintSecurityLevel, requestParams, sw_enforced, hw_enforced, include_keystore_enforced) ==
    IF keyMintSecurityLevel # SOFTWARE
    THEN PretendHardware(keyMintSecurityLevel, sw_enforced, hw_enforced,
                         include_keystore_enforced)
    ELSE PureSoftware(keyMintSecurityLevel, requestParams, sw_enforced,
                      hw_enforced, include_keystore_enforced)

\* The record of one invocation, kept in conv.
Invocation(keyMintSecurityLevel, requestParams, sw_enforced, hw_enforced, include_keystore_enforced) ==
    LET r == convertKeyCharacteristics(keyMintSecurityLevel, requestParams,
                 sw_enforced, hw_enforced, include_keystore_enforced)
    IN [called |-> TRUE,
        level |-> keyMintSecurityLevel,
        requestParams |-> requestParams,
        sw_enforced |-> sw_enforced,
        hw_enforced |-> hw_enforced,
        include_keystore_enforced |-> include_keystore_enforced,
        aborted |-> r.aborted,
        retval |-> r.retval]

NoInvocation ==
    [called |-> FALSE, level |-> SOFTWARE, requestParams |-> <<>>,
     sw_enforced |-> <<>>, hw_enforced |-> <<>>,
     include_keystore_enforced |-> FALSE, aborted |-> FALSE, retval |-> <<>>]

----------------------------------------------------------------------------
(* Small conversions of the handlers.                                      *)

KM_ERROR_OK == "KM_ERROR_OK"
KM_ERROR_TOO_MANY_OPERATIONS == "KM_ERROR_TOO_MANY_OPERATIONS"

\* ScopedAStatus::ok()
StatusOk == [isOk |-> TRUE, serviceSpecificError |-> KM_ERROR_OK]

\* No status: the call has not returned.
NoStatus == [isOk |-> FALSE, serviceSpecificError |-> "none"]

kmError2ScopedAStatus(error) ==
    IF error = KM_ERROR_OK THEN StatusOk
    ELSE [isOk |-> FALSE, serviceSpecificError |-> error]

kmBlob2vector(blob) == [i \in 1..Len(blob) |-> blob[i]]

convertCertificateChain(chain) == [i \in 1..Len(chain) |-> kmBlob2vector(chain[i])]

\* authToken2AidlVec: the serialized token, empty bytes for an absent token.
authToken2AidlVec(authToken) == IF authToken = 0 THEN <<>> ELSE <<authToken>>

----------------------------------------------------------------------------
(* The inputs of a call: the caller's parameters and the engine's answer.  *)

SeqsUpTo(S, n) == UNION {[1..k -> S] : k \in 0..n}

\* Software-side parameters an engine response may carry: one tag of every
\* group of the switch, and PURPOSE with two values.
SwParams ==
    {<<"KM_TAG_KDF", 1>>, <<"KM_TAG_STORAGE_KEY", 1>>,
     <<"KM_TAG_CREATION_DATETIME", 1>>, <<"KM_TAG_APPLICATION_DATA", 1>>,
     <<"KM_TAG_ROOT_OF_TRUST", 1>>, <<"KM_TAG_PURPOSE", 1>>,
     <<"KM_TAG_PURPOSE", 2>>, <<"KM_TAG_USER_ID", 1>>}

HwParams == {<<"KM_TAG_ALGORITHM", 1>>, <<"KM_TAG_NONCE", 1>>}

KeyParams ==
    {[tag |-> "KM_TAG_CREATION_DATETIME", value |-> 1],
     [tag |-> "KM_TAG_PURPOSE", value |-> 1]}

EngineErrors == {"KM_ERROR_INVALID_KEY_BLOB", "KM_ERROR_INVALID_ARGUMENT"}

\* What the engine fills in besides the error and the two tag sets.
Blobs == [key_blob |-> <<1, 2>>, certificate_chain |-> << <<3>>, <<4>> >>,
          upgraded_key |-> <<5>>, output_params |-> << <<"KM_TAG_NONCE", 1>> >>]

Response(error, unenforced, enforced) ==
    [error |-> error, unenforced |-> unenforced, enforced |-> enforced,
     key_blob |-> Blobs.key_blob, certificate_chain |-> Blobs.certificate_chain,
     upgraded_key |-> Blobs.upgraded_key, output_params |-> Blobs.output_params]

\* A failed engine call reports its error and no tag sets.
Responses ==
    {Response(KM_ERROR_OK, s, h) : s \in SeqsUpTo(SwParams, MaxSw), h \in SeqsUpTo(HwParams, MaxHw)}
    \cup {Response(e, <<>>, <<>>) : e \in EngineErrors}

AuthTokens == {0, 7}   \* 0: no auth token given

\* What a caller's output objects hold before the call: left-over data.
PriorCharacteristics ==
    << [securityLevel |-> KEYSTORE,
        authorizations |-> << [tag |-> "KM_TAG_USER_ID", value |-> 9] >>] >>

PriorOut ==
    [creationResult |-> [keyBlob |-> <<9>>,
                         keyCharacteristics |-> PriorCharacteristics,
                         certificateChain |-> << <<9>> >>],
     keyBlob |-> <<9>>,
     result |-> [params |-> <<>>, challenge |-> 0, operation |-> 0],
     keyCharacteristics |-> PriorCharacteristics]

NoRet == [op |-> "none", status |-> NoStatus, engineCalls |-> 0]

NoRequest == [op |-> "none", params |-> <<>>]

----------------------------------------------------------------------------
(* The engine's operation table (AndroidKeymaster::BeginOperation and the  *)
(* operation's finish / abort).                                            *)

\* The engine's answer to BeginOperation: its verdict on the key and the
\* parameters, then a slot of the table.
BeginOperation(verdict, table, handle) ==
    IF verdict.error # KM_ERROR_OK
    THEN [error |-> verdict.error, op_handle |-> 0, output_params |-> <<>>,
          table |-> table, next |-> handle]
    ELSE IF Len(table) >= kOperationTableSize
    THEN [error |-> KM_ERROR_TOO_MANY_OPERATIONS, op_handle |-> 0,
          output_params |-> <<>>, table |-> table, next |-> handle]
    ELSE [error |-> KM_ERROR_OK, op_handle |-> handle,
          output_params |-> verdict.output_params,
          table |-> Append(table, handle), next |-> handle + 1]

\* The table without its i-th operation.
RemoveOperation(table, i) ==
    [j \in 1..(Len(table) - 1) |-> IF j < i THEN table[j] ELSE table[j + 1]]

----------------------------------------------------------------------------
(* The handlers.                                                           *)

Return(op, status) ==
    /\ ret' = [op |-> op, status |-> status, engineCalls |-> 1]
    /\ pc' = "returned"

\* A CHECK failed inside the handler: the process is gone, nothing returns.
Crash(op) ==
    /\ ret' = [op |-> op, status |-> NoStatus, engineCalls |-> 1]
    /\ pc' = "crashed"

\* Mutant: the key blob is copied out before the error is looked at.
FillCreationResultWritesFirst(op, requestParams, response) ==
    IF response.error # KM_ERROR_OK
    THEN /\ Return(op, kmError2ScopedAStatus(response.error))
         /\ out' = [out EXCEPT !.creationResult.keyBlob = kmBlob2vector(response.key_blob)]
         /\ UNCHANGED conv
    ELSE LET c == Invocation(securityLevel_, requestParams, response.unenforced, response.enforced, TRUE)
         IN /\ conv' = c
            /\ IF c.aborted
               THEN /\ Crash(op)
                    /\ out' = [out EXCEPT !.creationResult.keyBlob = kmBlob2vector(response.key_blob)]
               ELSE /\ Return(op, StatusOk)
                    /\ out' = [out EXCEPT !.creationResult =
                                 [keyBlob |-> kmBlob2vector(response.key_blob),
                                  keyCharacteristics |-> c.retval,
                                  certificateChain |-> convertCertificateChain(response.certificate_chain)]]

\* The tail shared by generateKey, importKey and importWrappedKey once the
\* engine has answered: lines 284-301, 324-333, 355-364.
FillCreationResult(op, requestParams, response) ==
    IF response.error # KM_ERROR_OK
    THEN /\ Return(op, kmError2ScopedAStatus(response.error))
         /\ UNCHANGED <<out, conv>>
    ELSE LET c == Invocation(securityLevel_, requestParams, response.unenforced, response.enforced, TRUE)
         IN /\ conv' = c
            /\ IF c.aborted
               THEN /\ Crash(op)
                    /\ out' = [out EXCEPT !.creationResult.keyBlob = kmBlob2vector(response.key_blob)]
               ELSE /\ Return(op, StatusOk)
                    /\ out' = [out EXCEPT !.creationResult =
                                 [keyBlob |-> kmBlob2vector(response.key_blob),
                                  keyCharacteristics |-> c.retval,
                                  certificateChain |-> convertCertificateChain(response.certificate_chain)]]

generateKey ==
    /\ pc = "idle"
    /\ LET key_description == KmParamSet(args.keyParams)
       IN /\ request' = [op |-> "GenerateKey", params |-> key_description]
          /\ FillCreationResult("generateKey", key_description, engine)
    /\ UNCHANGED <<securityLevel_, args, engine, opTable, nextHandle>>

importKey ==
    /\ pc = "idle"
    /\ LET key_description == KmParamSet(args.keyParams)
       IN /\ request' = [op |-> "ImportKey", params |-> key_description]
          /\ FillCreationResult("importKey", key_description, engine)
    /\ UNCHANGED <<securityLevel_, args, engine, opTable, nextHandle>>

importWrappedKey ==
    /\ pc = "idle"
    /\ LET additional_params == KmParamSet(args.keyParams)
       IN /\ request' = [op |-> "ImportWrappedKey", params |-> additional_params]
          /\ FillCreationResult("importWrappedKey", additional_params, engine)
    /\ UNCHANGED <<securityLevel_, args, engine, opTable, nextHandle>>

upgradeKey ==
    /\ pc = "idle"
    /\ request' = [op |-> "UpgradeKey", params |-> KmParamSet(args.keyParams)]
    /\ IF engine.error # KM_ERROR_OK
       THEN /\ Return("upgradeKey", kmError2ScopedAStatus(engine.error))
            /\ UNCHANGED out
       ELSE /\ Return("upgradeKey", StatusOk)
            /\ out' = [out EXCEPT !.keyBlob = kmBlob2vector(engine.upgraded_key)]
    /\ UNCHANGED <<securityLevel_, args, engine, conv, opTable, nextHandle>>

\* Mutant: the call leaves include_keystore_enforced at its default.
getKeyCharacteristicsWithKeystore ==
    /\ pc = "idle"
    /\ request' = [op |-> "GetKeyCharacteristics", params |-> <<>>]
    /\ IF engine.error # KM_ERROR_OK
       THEN /\ Return("getKeyCharacteristics", kmError2ScopedAStatus(engine.error))
            /\ UNCHANGED <<out, conv>>
       ELSE LET emptySet == <<>>
                c == Invocation(securityLevel_, emptySet, engine.unenforced, engine.enforced, TRUE)
            IN /\ conv' = c
               /\ IF c.aborted
                  THEN Crash("getKeyCharacteristics") /\ UNCHANGED out
                  ELSE /\ Return("getKeyCharacteristics", StatusOk)
                       /\ out' = [out EXCEPT !.keyCharacteristics = c.retval]
    /\ UNCHANGED <<securityLevel_, args, engine, opTable, nextHandle>>

getKeyCharacteristics ==
    /\ pc = "idle"
    /\ request' = [op |-> "GetKeyCharacteristics", params |-> <<>>]
    /\ IF engine.error # KM_ERROR_OK
       THEN /\ Return("getKeyCharacteristics", kmError2ScopedAStatus(engine.error))
            /\ UNCHANGED <<out, conv>>
       ELSE LET emptySet == <<>>
                c == Invocation(securityLevel_, emptySet, engine.unenforced, engine.enforced, FALSE)
            IN /\ conv' = c
               /\ IF c.aborted
                  THEN Crash("getKeyCharacteristics") /\ UNCHANGED out
                  ELSE /\ Return("getKeyCharacteristics", StatusOk)
                       /\ out' = [out EXCEPT !.keyCharacteristics = c.retval]
    /\ UNCHANGED <<securityLevel_, args, engine, opTable, nextHandle>>

\* Mutant: the AUTH_TOKEN tag is pushed only for a caller that gave a token.
beginSkipsAbsentToken ==
    /\ pc = "idle"
    /\ BeginOperation(engine, opTable, nextHandle).next <= MaxBegins + 1   \* the bound on handles
    /\ \E authToken \in AuthTokens :
         LET vector_token == authToken2AidlVec(authToken)
             additional_params == IF authToken = 0
                                  THEN KmParamSet(args.keyParams)
                                  ELSE Append(KmParamSet(args.keyParams), <<"KM_TAG_AUTH_TOKEN", vector_token>>)
             response == BeginOperation(engine, opTable, nextHandle)
         IN /\ args' = [args EXCEPT !.authToken = authToken]
            /\ request' = [op |-> "BeginOperation", params |-> additional_params]
            /\ opTable' = response.table
            /\ nextHandle' = response.next
            /\ IF response.error # KM_ERROR_OK
               THEN /\ Return("begin", kmError2ScopedAStatus(response.error))
                    /\ UNCHANGED out
               ELSE /\ Return("begin", StatusOk)
                    /\ out' = [out EXCEPT !.result =
                                 [params |-> kmParamSet2Aidl(response.output_params),
                                  challenge |-> response.op_handle,
                                  operation |-> response.op_handle]]
    /\ UNCHANGED <<securityLevel_, engine, conv>>

begin ==
    /\ pc = "idle"
    /\ BeginOperation(engine, opTable, nextHandle).next <= MaxBegins + 1   \* the bound on handles
    /\ \E authToken \in AuthTokens :
         LET vector_token == authToken2AidlVec(authToken)
             additional_params == Append(KmParamSet(args.keyParams), <<"KM_TAG_AUTH_TOKEN", vector_token>>)
             response == BeginOperation(engine, opTable, nextHandle)
         IN /\ args' = [args EXCEPT !.authToken = authToken]
            /\ request' = [op |-> "BeginOperation", params |-> additional_params]
            /\ opTable' = response.table
            /\ nextHandle' = response.next
            /\ IF response.error # KM_ERROR_OK
               THEN /\ Return("begin", kmError2ScopedAStatus(response.error))
                    /\ UNCHANGED out
               ELSE /\ Return("begin", StatusOk)
                    /\ out' = [out EXCEPT !.result =
                                 [params |-> kmParamSet2Aidl(response.output_params),
                                  challenge |-> response.op_handle,
                                  operation |-> response.op_handle]]
    /\ UNCHANGED <<securityLevel_, engine, conv>>

\* AndroidKeyMintOperation::finish / abort on a live operation, between two
\* calls of the device: the engine drops the operation from its table.
finish ==
    /\ pc = "idle"
    /\ \E i \in 1..Len(opTable) : opTable' = RemoveOperation(opTable, i)
    /\ UNCHANGED <<securityLevel_, args, engine, pc, ret, out, conv, request, nextHandle>>

abort ==
    /\ pc = "idle"
    /\ \E i \in 1..Len(opTable) : opTable' = RemoveOperation(opTable, i)
    /\ UNCHANGED <<securityLevel_, args, engine, pc, ret, out, conv, request, nextHandle>>

\* convertKeyCharacteristics applied to the drawn sets with either value of
\* include_keystore_enforced.
Convert ==
    /\ pc = "idle"
    /\ engine.error = KM_ERROR_OK
    /\ \E include_keystore_enforced \in BOOLEAN :
         LET c == Invocation(securityLevel_, KmParamSet(args.keyParams), engine.unenforced, engine.enforced, include_keystore_enforced)
         IN /\ conv' = c
            /\ IF c.aborted
               THEN Crash("convertKeyCharacteristics")
               ELSE Return("convertKeyCharacteristics", NoStatus)
    /\ UNCHANGED <<securityLevel_, args, engine, out, request, opTable, nextHandle>>

\* The caller takes the status and issues its next call; the handler's
\* request object is gone with its stack frame.
NextCall ==
    /\ pc = "returned"
    /\ pc' = "idle"
    /\ ret' = NoRet
    /\ request' = NoRequest
    /\ args' = [args EXCEPT !.authToken = 0]
    /\ UNCHANGED <<securityLevel_, engine, out, conv, opTable, nextHandle>>

----------------------------------------------------------------------------
(* Specifications.                                                         *)

Init ==
    /\ securityLevel_ \in SecurityLevels
    /\ args \in [keyParams : SeqsUpTo(KeyParams, MaxReq), authToken : {0}]
    /\ engine \in Responses
    /\ pc = "idle"
    /\ ret = NoRet
    /\ out = PriorOut
    /\ conv = NoInvocation
    /\ request = NoRequest
    /\ opTable = <<>>
    /\ nextHandle = 1

Next ==
    \/ generateKey
    \/ importKey
    \/ importWrappedKey
    \/ upgradeKey
    \/ getKeyCharacteristics
    \/ begin
    \/ Convert

Spec == Init /\ [][Next]_vars

\* A device serving begin, finish and abort, one after the other, on a key
\* the engine accepts.
InitTable ==
    /\ securityLevel_ = SOFTWARE
    /\ args = [keyParams |-> <<>>, authToken |-> 0]
    /\ engine = Response(KM_ERROR_OK, <<>>, <<>>)
    /\ pc = "idle"
    /\ ret = NoRet
    /\ out = PriorOut
    /\ conv = NoInvocation
    /\ request = NoRequest
    /\ opTable = <<>>
    /\ nextHandle = 1

NextTable ==
    \/ begin
    \/ finish
    \/ abort
    \/ NextCall

SpecTable == InitTable /\ [][NextTable]_vars

----------------------------------------------------------------------------
(* Vocabulary of the properties.                                           *)

\* The places <<i, j>> of the authorizations of a characteristics list.
Places(retval) ==
    UNION {{<<i, j>> : j \in 1..Len(retval[i].authorizations)} : i \in 1..Len(retval)}

AuthAt(retval, pl) == retval[pl[1]].authorizations[pl[2]]

\* An AIDL KeyParameter and an engine parameter carry the same tag and value.
Same(a, param) == a.tag = param[1] /\ a.value = param[2]

\* A list of KeyParameters mirrors an engine set: same length, same order.
Mirrors(authorizations, set) ==
    /\ Len(authorizations) = Len(set)
    /\ \A i \in 1..Len(set) : Same(authorizations[i], set[i])

HasTag(set, tags) == \E k \in 1..Len(set) : set[k][1] \in tags

NoTagOf(retval, tags) == \A pl \in Places(retval) : AuthAt(retval, pl).tag \notin tags

EntriesOf(retval, level) == {i \in 1..Len(retval) : retval[i].securityLevel = level}

ConvReturned == conv.called /\ ~conv.aborted

----------------------------------------------------------------------------
(* C1: at SOFTWARE with an empty hardware-enforced set, every tag of the   *)
(* returned SOFTWARE entry occurs in S and is KeyMint-enforced; every tag  *)
(* of the returned KEYSTORE entry occurs in S and is Keystore-enforced or  *)
(* is CREATION_DATETIME with CREATION_DATETIME in R; no occurrence of S is *)
(* placed twice; no Unimplemented, Disallowed or Not-key-characteristics   *)
(* tag is returned.                                                        *)
C1_SoftwareSplit ==
    (ConvReturned /\ conv.level = SOFTWARE /\ Len(conv.hw_enforced) = 0) =>
        /\ \A i \in 1..Len(conv.retval) : conv.retval[i].securityLevel \in {SOFTWARE, KEYSTORE}
        /\ \A pl \in Places(conv.retval) :
             LET a == AuthAt(conv.retval, pl)
                 level == conv.retval[pl[1]].securityLevel
             IN /\ \E k \in 1..Len(conv.sw_enforced) : Same(a, conv.sw_enforced[k])
                /\ level = SOFTWARE => a.tag \in KeyMintEnforcedTags
                /\ level = KEYSTORE =>
                     \/ a.tag \in KeystoreEnforcedTags
                     \/ /\ a.tag = "KM_TAG_CREATION_DATETIME"
                        /\ Contains(conv.requestParams, "KM_TAG_CREATION_DATETIME")
        /\ \A k \in 1..Len(conv.sw_enforced) :
             Cardinality({pl \in Places(conv.retval) : Same(AuthAt(conv.retval, pl), conv.sw_enforced[k])})
               <= Cardinality({m \in 1..Len(conv.sw_enforced) : conv.sw_enforced[m] = conv.sw_enforced[k]})
        /\ NoTagOf(conv.retval, UnimplementedTags \cup DisallowedTags \cup NotCharacteristicTags)

C1_Witness ==
    /\ ConvReturned /\ conv.level = SOFTWARE /\ Len(conv.hw_enforced) = 0
    /\ Len(conv.retval) = 2
    /\ conv.retval[1].securityLevel = SOFTWARE
    /\ conv.retval[2].securityLevel = KEYSTORE

(* C2: at TRUSTED_ENVIRONMENT and STRONGBOX the entry of the security      *)
(* level mirrors the engine's hardware-enforced set in content and order;  *)
(* with include_keystore_enforced the KEYSTORE entry mirrors the engine's  *)
(* software-enforced set, unfiltered (an empty set has no entry); without  *)
(* include_keystore_enforced there is no KEYSTORE entry.                   *)
C2_HardwareVerbatim ==
    (conv.called /\ conv.level # SOFTWARE) =>
        /\ ~conv.aborted
        /\ Len(conv.retval) >= 1
        /\ conv.retval[1].securityLevel = conv.level
        /\ Mirrors(conv.retval[1].authorizations, conv.hw_enforced)
        /\ EntriesOf(conv.retval, conv.level) = {1}
        /\ IF conv.include_keystore_enforced /\ Len(conv.sw_enforced) > 0
           THEN /\ EntriesOf(conv.retval, KEYSTORE) = {2}
                /\ Len(conv.retval) = 2
                /\ Mirrors(conv.retval[2].authorizations, conv.sw_enforced)
           ELSE /\ EntriesOf(conv.retval, KEYSTORE) = {}
                /\ Len(conv.retval) = 1

C2_Witness ==
    /\ conv.called /\ conv.level = "STRONGBOX" /\ conv.include_keystore_enforced
    /\ Len(conv.hw_enforced) = 1
    /\ Len(conv.sw_enforced) = 2
    /\ HasTag(conv.sw_enforced, NotCharacteristicTags)
    /\ Len(conv.retval) = 2

(* C3 as stated: at every security level no Excluded (Disallowed) and no   *)
(* NotCharacteristic tag appears in any returned entry.                    *)
C3_NeverSurfacesAnyLevel ==
    ConvReturned => NoTagOf(conv.retval, DisallowedTags \cup NotCharacteristicTags)

(* C3 amended: at security level SOFTWARE, whatever                        *)
(* include_keystore_enforced and the software-enforced set, no Excluded    *)
(* and no NotCharacteristic tag appears in any returned entry.             *)
C3_NeverSurfacesAtSoftware ==
    (ConvReturned /\ conv.level = SOFTWARE) =>
        NoTagOf(conv.retval, DisallowedTags \cup NotCharacteristicTags)

C3_Witness ==
    /\ ConvReturned /\ conv.level = SOFTWARE
    /\ HasTag(conv.sw_enforced, DisallowedTags)
    /\ Len(conv.sw_enforced) = 2
    /\ Len(conv.retval) = 1

(* C4 as stated: at every security level no returned entry has an empty    *)
(* authorization list, and there is at most one entry per domain.          *)
C4_NoEmptyEntryAnyLevel ==
    ConvReturned =>
        /\ \A i \in 1..Len(conv.retval) : Len(conv.retval[i].authorizations) > 0
        /\ \A i, j \in 1..Len(conv.retval) :
             conv.retval[i].securityLevel = conv.retval[j].securityLevel => i = j

(* C4 amended: at security level SOFTWARE no returned entry has an empty   *)
(* authorization list; at every level the KEYSTORE entry is never empty    *)
(* and there is at most one entry per domain; at the other levels the      *)
(* entry of the security level is always returned, empty when the          *)
(* hardware-enforced set is empty.                                         *)
C4_NoEmptyEntry ==
    ConvReturned =>
        /\ \A i \in 1..Len(conv.retval) :
             (conv.level = SOFTWARE \/ conv.retval[i].securityLevel = KEYSTORE)
                => Len(conv.retval[i].authorizations) > 0
        /\ \A i, j \in 1..Len(conv.retval) :
             conv.retval[i].securityLevel = conv.retval[j].securityLevel => i = j
        /\ conv.level # SOFTWARE =>
             /\ EntriesOf(conv.retval, conv.level) = {1}
             /\ Len(conv.retval[1].authorizations) = Len(conv.hw_enforced)

C4_Witness ==
    /\ ConvReturned /\ conv.level = SOFTWARE /\ conv.include_keystore_enforced
    /\ Len(conv.sw_enforced) = 2
    /\ Len(conv.retval) = 1
    /\ conv.retval[1].securityLevel = KEYSTORE

(* C5: a successful getKeyCharacteristics returns a list with no KEYSTORE  *)
(* entry, whatever the device's security level and the engine's response.  *)
C5_NoKeystoreEntry ==
    (ret.op = "getKeyCharacteristics" /\ ret.status.isOk) =>
        /\ EntriesOf(out.keyCharacteristics, KEYSTORE) = {}
        /\ out.keyCharacteristics = conv.retval

C5_Witness ==
    /\ ret.op = "getKeyCharacteristics" /\ ret.status.isOk
    /\ securityLevel_ = "TRUSTED_ENVIRONMENT"
    /\ HasTag(engine.unenforced, KeystoreEnforcedTags)
    /\ Len(out.keyCharacteristics) = 1

(* C6: when the engine answers generateKey, importKey, importWrappedKey,   *)
(* upgradeKey, begin or getKeyCharacteristics with an error, the call has  *)
(* invoked the engine once, returns that error and leaves the caller's     *)
(* output objects as they were.                                            *)
C6_Handlers ==
    {"generateKey", "importKey", "importWrappedKey", "upgradeKey", "begin", "getKeyCharacteristics"}

C6_EngineError(op) ==
    IF op = "begin" THEN BeginOperation(engine, opTable, nextHandle).error ELSE engine.error

C6_ErrorLeavesOutputs ==
    [][(pc = "idle" /\ ret'.op \in C6_Handlers /\ C6_EngineError(ret'.op) # KM_ERROR_OK) =>
          /\ pc' = "returned"
          /\ ret'.engineCalls = 1
          /\ ~ret'.status.isOk
          /\ ret'.status.serviceSpecificError = C6_EngineError(ret'.op)
          /\ out' = out]_vars

C6_Witness ==
    /\ pc = "returned" /\ ret.op = "generateKey"
    /\ ret.status.serviceSpecificError = "KM_ERROR_INVALID_KEY_BLOB"
    /\ out = PriorOut

(* C7: with a table of 16, a begin issued while 16 operations are live     *)
(* fails with TOO_MANY_OPERATIONS and leaves the 16 in place; a begin      *)
(* issued while fewer are live (as after an abort) succeeds with a handle  *)
(* no live operation has; at most 16 operations are ever live and no two   *)
(* share a handle.                                                         *)
C7_BeginStep == pc = "idle" /\ ret'.op = "begin"

C7_TableBound ==
    /\ [](/\ Len(opTable) <= 16
          /\ \A i, j \in 1..Len(opTable) : opTable[i] = opTable[j] => i = j)
    /\ [][C7_BeginStep =>
            IF Len(opTable) >= 16
            THEN /\ ret'.status.serviceSpecificError = KM_ERROR_TOO_MANY_OPERATIONS
                 /\ ~ret'.status.isOk
                 /\ opTable' = opTable
            ELSE /\ ret'.status.isOk
                 /\ opTable' = Append(opTable, out'.result.challenge)
                 /\ \A i \in 1..Len(opTable) : opTable[i] # out'.result.challenge]_vars

C7_Witness ==
    /\ ret.op = "begin"
    /\ ret.status.serviceSpecificError = KM_ERROR_TOO_MANY_OPERATIONS
    /\ Len(opTable) = 16
    /\ opTable[16] = 17

(* C8: at SOFTWARE with include_keystore_enforced, a CREATION_DATETIME of  *)
(* the software-enforced set is in the KEYSTORE entry exactly when the     *)
(* request holds CREATION_DATETIME, and is in no entry otherwise;          *)
(* generateKey and importKey test the caller's key description;            *)
(* getKeyCharacteristics never returns CREATION_DATETIME.                  *)
C8_CreationDatetimeOf(retval, level) ==
    {pl \in Places(retval) : /\ retval[pl[1]].securityLevel = level
                             /\ AuthAt(retval, pl).tag = "KM_TAG_CREATION_DATETIME"}

C8_ConditionalEcho ==
    /\ (ConvReturned /\ conv.level = SOFTWARE /\ conv.include_keystore_enforced) =>
         /\ C8_CreationDatetimeOf(conv.retval, SOFTWARE) = {}
         /\ Cardinality(C8_CreationDatetimeOf(conv.retval, KEYSTORE)) =
               IF Contains(conv.requestParams, "KM_TAG_CREATION_DATETIME")
               THEN Cardinality({k \in 1..Len(conv.sw_enforced) : conv.sw_enforced[k][1] = "KM_TAG_CREATION_DATETIME"})
               ELSE 0
    /\ (ret.op \in {"generateKey", "importKey"} /\ conv.called) =>
         /\ conv.include_keystore_enforced
         /\ Mirrors(args.keyParams, conv.requestParams)
    /\ (ret.op = "getKeyCharacteristics" /\ ret.status.isOk /\ securityLevel_ = SOFTWARE) =>
         NoTagOf(out.keyCharacteristics, {"KM_TAG_CREATION_DATETIME"})

C8_Witness ==
    /\ ret.op = "generateKey" /\ ret.status.isOk /\ securityLevel_ = SOFTWARE
    /\ HasTag(conv.sw_enforced, {"KM_TAG_CREATION_DATETIME"})
    /\ Len(conv.requestParams) = 1
    /\ ~Contains(conv.requestParams, "KM_TAG_CREATION_DATETIME")
    /\ Len(out.creationResult.keyCharacteristics) = 1

(* C9 as stated: at a security level other than SOFTWARE a non-empty       *)
(* hardware-enforced set aborts the call.                                  *)
C9_NonSoftwareAborts ==
    (conv.called /\ conv.level # SOFTWARE /\ Len(conv.hw_enforced) > 0) => conv.aborted

(* C9 amended: it is at security level SOFTWARE that the hardware-enforced *)
(* set is expected empty and a non-empty one aborts the call; at the other *)
(* levels a non-empty set never aborts: it is returned.                    *)
C9_SoftwareAborts ==
    /\ (conv.called /\ conv.level = SOFTWARE /\ Len(conv.hw_enforced) > 0) =>
         conv.aborted /\ pc = "crashed"
    /\ (conv.called /\ conv.level # SOFTWARE) =>
         /\ ~conv.aborted
         /\ pc = "returned"

C9_Witness ==
    /\ conv.called /\ conv.level = SOFTWARE
    /\ Len(conv.hw_enforced) > 0
    /\ Len(conv.sw_enforced) = 0
    /\ conv.aborted /\ pc = "crashed"

(* C10: at SOFTWARE the call aborts exactly when the hardware-enforced set *)
(* is non-empty or the software-enforced set holds ECIES_SINGLE_HASH_MODE, *)
(* INVALID, KDF or ROLLBACK_RESISTANCE, for either value of                *)
(* include_keystore_enforced; an abort takes the handler with it.          *)
C10_AbortsExactly ==
    (conv.called /\ conv.level = SOFTWARE) =>
        /\ conv.aborted <=>
             \/ Len(conv.hw_enforced) > 0
             \/ HasTag(conv.sw_enforced, {"KM_TAG_ECIES_SINGLE_HASH_MODE", "KM_TAG_INVALID", "KM_TAG_KDF", "KM_TAG_ROLLBACK_RESISTANCE"})
        /\ conv.aborted <=> pc = "crashed"

C10_Witness ==
    /\ pc = "crashed" /\ ret.op = "getKeyCharacteristics"
    /\ ~conv.include_keystore_enforced
    /\ Len(conv.hw_enforced) = 0
    /\ HasTag(conv.sw_enforced, {"KM_TAG_KDF"})

(* C11: in every begin call the parameter set handed to the engine's       *)
(* BeginOperation is the caller's params, in order, followed by one        *)
(* AUTH_TOKEN tag carrying the serialized auth token, whether or not the   *)
(* caller gave a token and whatever the engine then answers; the request   *)
(* carries the token nowhere else.                                         *)
C11_AuthTokenCount(set) ==
    Cardinality({i \in 1..Len(set) : set[i][1] = "KM_TAG_AUTH_TOKEN"})

C11_AuthTokenAppended ==
    ret.op = "begin" =>
        LET n == Len(args.keyParams) IN
        /\ request.op = "BeginOperation"
        /\ DOMAIN request = {"op", "params"}
        /\ Len(request.params) = n + 1
        /\ \A i \in 1..n : Same(args.keyParams[i], request.params[i])
        /\ request.params[n + 1][1] = "KM_TAG_AUTH_TOKEN"
        /\ request.params[n + 1][2] = (IF args.authToken = 0 THEN <<>> ELSE <<args.authToken>>)
        /\ C11_AuthTokenCount(request.params) = 1 + Cardinality({i \in 1..n : args.keyParams[i].tag = "KM_TAG_AUTH_TOKEN"})

C11_Witness ==
    /\ ret.op = "begin" /\ pc = "returned"
    /\ args.authToken = 0
    /\ Len(args.keyParams) = 1
    /\ Len(request.params) = 2
    /\ ~ret.status.isOk

(* C12: at SOFTWARE with an empty hardware-enforced set and no Invalid tag *)
(* in S, the returned SOFTWARE entry is the subsequence of S of the        *)
(* KeyMint-enforced tags and, with include_keystore_enforced, the returned *)
(* KEYSTORE entry is the subsequence of S of the Keystore-enforced tags    *)
(* and, when R contains CREATION_DATETIME, of CREATION_DATETIME: every     *)
(* occurrence kept, in the order of S; the SOFTWARE entry, when present,   *)
(* comes before the KEYSTORE entry.                                        *)
C12_IsKeyMintEnforced(param) == param[1] \in KeyMintEnforcedTags

C12_IsKeystoreEnforced(param) ==
    \/ param[1] \in KeystoreEnforcedTags
    \/ /\ param[1] = "KM_TAG_CREATION_DATETIME"
       /\ Contains(conv.requestParams, "KM_TAG_CREATION_DATETIME")

\* The authorizations returned for a level: those of its entry, none without one.
C12_AuthorizationsOf(retval, level) ==
    IF EntriesOf(retval, level) = {}
    THEN <<>>
    ELSE retval[CHOOSE i \in EntriesOf(retval, level) : TRUE].authorizations

C12_KeepsAll ==
    (/\ ConvReturned /\ conv.level = SOFTWARE /\ Len(conv.hw_enforced) = 0
     /\ ~HasTag(conv.sw_enforced, InvalidTags)) =>
        /\ Cardinality(EntriesOf(conv.retval, SOFTWARE)) <= 1
        /\ Cardinality(EntriesOf(conv.retval, KEYSTORE)) <= 1
        /\ Mirrors(C12_AuthorizationsOf(conv.retval, SOFTWARE),
                   SelectSeq(conv.sw_enforced, C12_IsKeyMintEnforced))
        /\ conv.include_keystore_enforced =>
             Mirrors(C12_AuthorizationsOf(conv.retval, KEYSTORE),
                     SelectSeq(conv.sw_enforced, C12_IsKeystoreEnforced))
        /\ \A i \in EntriesOf(conv.retval, SOFTWARE) :
             \A j \in EntriesOf(conv.retval, KEYSTORE) : i < j

\* Several PURPOSE tags in S, all returned, in the order of S.
C12_Witness ==
    /\ ConvReturned /\ conv.level = SOFTWARE /\ Len(conv.hw_enforced) = 0
    /\ conv.sw_enforced = <<<<"KM_TAG_PURPOSE", 2>>, <<"KM_TAG_PURPOSE", 1>>>>
    /\ Len(conv.retval) = 1
    /\ Len(conv.retval[1].authorizations) = 2
    /\ conv.retval[1].authorizations[1].value = 2

====
